---- MODULE Spec2Model ----
(***************************************************************************)
(* Model of the liquid-loading detection engine of WellLiquidMonitor       *)
(* (src/src/process.py, class LiquidLoadingDetector, with the defaults of  *)
(* src/src/config.py).                                                     *)
(*                                                                         *)
(* Conventions.                                                            *)
(*  - A timestamp is a number of hours since midnight of day 0; the hourly *)
(*    frame is the sequence of its rows whose switch_status is 0 or 1, in  *)
(*    ascending time order (an hour the resampling filled with missing     *)
(*    values is neither Open nor Closed, so it is simply no row here).     *)
(*  - A float is a record [k, n, d]: k = "num" is the rational n/d (d > 0),*)
(*    k = "nan" is NaN, k = "pinf"/"ninf" are the infinities numpy yields  *)
(*    for a division by zero.  Rounding of binary floats is not modelled.  *)
(*  - A pandas Series is a sequence of [date, v] entries (index, value).   *)
(*  - A period keeps its start_date and end_date strings, modelled as the  *)
(*    tuple of the fields strftime prints; the formatted magnitude fields  *)
(*    are left out.                                                        *)
(***************************************************************************)
EXTENDS Integers, Sequences, FiniteSets, TLC

\* ------------------------------------------------------------------ bounds
\* longest all-Open one-row-per-day series offered to analyze()
MaxDays == 4
\* longest mixed Open/Closed series offered to analyze()
MaxRows == 4
\* analyze() calls made on one reused detector instance
MaxCalls == 2
\* longest run of hourly Closed rows put into a daily series
MaxClosedRun == 3

\* ------------------------------------------------------- program constants
HoursPerDay == 24
Open == 0
Closed == 1
change_threshold == 20
stable_pressure_threshold == 5
zigzag_threshold == 20
pressure_diff_threshold == 3

\* ------------------------------------------------------------------ floats
NaN == [k |-> "nan", n |-> 0, d |-> 1]
PInf == [k |-> "pinf", n |-> 0, d |-> 1]
NInf == [k |-> "ninf", n |-> 0, d |-> 1]
Rat(a, b) == [k |-> "num", n |-> a, d |-> b]
Num(a) == Rat(a, 1)

IsNum(x) == x.k = "num"
IsNaN(x) == x.k = "nan"

\* sign of a float that is not NaN: -1, 0 or 1
Sgn(x) ==
  IF x.k = "pinf" THEN 1
  ELSE IF x.k = "ninf" THEN -1
  ELSE IF x.n > 0 THEN 1 ELSE IF x.n < 0 THEN -1 ELSE 0

\* x - y
SubF(x, y) ==
  IF IsNaN(x) \/ IsNaN(y) THEN NaN
  ELSE IF IsNum(x) /\ IsNum(y) THEN Rat(x.n * y.d - y.n * x.d, x.d * y.d)
  ELSE IF IsNum(y) THEN x
  ELSE IF IsNum(x) THEN (IF y.k = "pinf" THEN NInf ELSE PInf)
  ELSE IF x.k = y.k THEN NaN ELSE x

\* x * y
MulF(x, y) ==
  IF IsNaN(x) \/ IsNaN(y) THEN NaN
  ELSE IF IsNum(x) /\ IsNum(y) THEN Rat(x.n * y.n, x.d * y.d)
  ELSE IF Sgn(x) * Sgn(y) = 0 THEN NaN
  ELSE IF Sgn(x) * Sgn(y) > 0 THEN PInf ELSE NInf

\* x / y for numpy floats: a zero divisor gives an infinity or NaN, no error
DivF(x, y) ==
  IF IsNaN(x) \/ IsNaN(y) THEN NaN
  ELSE IF IsNum(x) /\ IsNum(y)
    THEN IF y.n = 0
           THEN (IF x.n > 0 THEN PInf ELSE IF x.n < 0 THEN NInf ELSE NaN)
           ELSE IF y.n > 0 THEN Rat(x.n * y.d, x.d * y.n)
                ELSE Rat(-(x.n * y.d), x.d * (-y.n))
  ELSE IF IsNum(y) THEN (IF y.n = 0 THEN x
                         ELSE IF Sgn(x) * Sgn(y) > 0 THEN PInf ELSE NInf)
  ELSE IF IsNum(x) THEN Num(0)
  ELSE NaN

\* abs(x)
AbsF(x) ==
  IF IsNum(x) THEN (IF x.n < 0 THEN Rat(-x.n, x.d) ELSE x)
  ELSE IF IsNaN(x) THEN NaN ELSE PInf

\* x < y ; every comparison with NaN is false
LtF(x, y) ==
  IF IsNaN(x) \/ IsNaN(y) THEN FALSE
  ELSE IF IsNum(x) /\ IsNum(y) THEN x.n * y.d < y.n * x.d
  ELSE IF x.k = y.k THEN FALSE
  ELSE x.k = "ninf" \/ y.k = "pinf"

\* x > y
GtF(x, y) == LtF(y, x)

\* x == y
EqF(x, y) ==
  IF IsNaN(x) \/ IsNaN(y) THEN FALSE
  ELSE IF IsNum(x) /\ IsNum(y) THEN x.n * y.d = y.n * x.d
  ELSE x.k = y.k

\* x >= y
GeF(x, y) == GtF(x, y) \/ EqF(x, y)

\* x != y ; true when either side is NaN
NeF(x, y) == ~EqF(x, y)

\* x + y (finite summands only: used by the column sums below)
AddF(x, y) ==
  IF IsNaN(x) \/ IsNaN(y) THEN NaN
  ELSE IF IsNum(x) /\ IsNum(y) THEN Rat(x.n * y.d + y.n * x.d, x.d * y.d)
  ELSE IF IsNum(y) THEN x
  ELSE IF IsNum(x) THEN y
  ELSE IF x.k = y.k THEN x ELSE NaN

\* ------------------------------------------------------------ pandas parts
\* range(n) of Python: 0 .. n-1, empty when n <= 0
Range(n) == IF n > 0 THEN [j \in 1..n |-> j - 1] ELSE <<>>

\* the values of a Series, NaN dropped (the skipna of max, min and mean)
DropNa(vals) == SelectSeq(vals, LAMBDA x: ~IsNaN(x))

RECURSIVE SumF(_)
SumF(vals) == IF vals = <<>> THEN Num(0) ELSE AddF(vals[1], SumF(Tail(vals)))

\* Series.max(): NaN when nothing but NaN is there
MaxF(vals) ==
  LET xs == DropNa(vals)
  IN  IF xs = <<>> THEN NaN
      ELSE xs[CHOOSE i \in DOMAIN xs : \A j \in DOMAIN xs : GeF(xs[i], xs[j])]

\* Series.min()
MinF(vals) ==
  LET xs == DropNa(vals)
  IN  IF xs = <<>> THEN NaN
      ELSE xs[CHOOSE i \in DOMAIN xs : \A j \in DOMAIN xs : GeF(xs[j], xs[i])]

\* Series.mean()
MeanF(vals) ==
  LET xs == DropNa(vals)
  IN  IF xs = <<>> THEN NaN ELSE DivF(SumF(xs), Num(Len(xs)))

\* df[df['switch_status'] == status]
RowsWithStatus(frame, status) ==
  SelectSeq(frame, LAMBDA r: r.switch_status = status)

\* the rows of one calendar day
RowsOfDay(rows, day) ==
  SelectSeq(rows, LAMBDA r: r.time \div HoursPerDay = day)

\* the index of rows.resample('D'): every midnight from the first row's day to
\* the last row's day, days without rows included
DayIndex(rows) ==
  IF rows = <<>> THEN <<>>
  ELSE LET first == rows[1].time \div HoursPerDay
           last == rows[Len(rows)].time \div HoursPerDay
       IN  [i \in 1..(last - first + 1) |-> (first + i - 1) * HoursPerDay]

\* rows['total_gas_flow'].resample('D').last()
ResampleLastTotal(rows) ==
  LET idx == DayIndex(rows)
  IN  [i \in DOMAIN idx |->
         LET g == RowsOfDay(rows, idx[i] \div HoursPerDay)
         IN  [date |-> idx[i],
              v |-> IF g = <<>> THEN NaN ELSE Num(g[Len(g)].total_gas_flow)]]

\* rows['casing_pressure'].resample('D').mean()
ResampleMeanCasing(rows) ==
  LET idx == DayIndex(rows)
  IN  [i \in DOMAIN idx |->
         LET g == RowsOfDay(rows, idx[i] \div HoursPerDay)
         IN  [date |-> idx[i],
              v |-> MeanF([j \in DOMAIN g |-> Num(g[j].casing_pressure)])]]

\* Series.diff()
Diff(s) ==
  [i \in DOMAIN s |->
     [date |-> s[i].date,
      v |-> IF i = 1 THEN NaN ELSE SubF(s[i].v, s[i - 1].v)]]

\* a.index.intersection(b.index)
IndexIntersection(a, b) ==
  LET both == SelectSeq(a, LAMBDA e: \E j \in DOMAIN b : b[j].date = e.date)
  IN  [i \in DOMAIN both |-> both[i].date]

\* s[dates]
Loc(s, dates) ==
  [i \in DOMAIN dates |-> s[CHOOSE j \in DOMAIN s : s[j].date = dates[i]]]

\* the values of a Series
Values(s) == [i \in DOMAIN s |-> s[i].v]

\* ts.strftime('%Y-%m-%d'): the calendar day alone
StrftimeDate(ts) == <<ts \div HoursPerDay>>

\* ts.strftime('%Y-%m-%d %H:%M'): day, hour and minute of an hour-aligned stamp
StrftimeMinute(ts) == <<ts \div HoursPerDay, ts % HoursPerDay, 0>>

\* pd.to_datetime(text): midnight for a date-only text
ToDatetime(text) ==
  IF Len(text) = 1 THEN text[1] * HoursPerDay
  ELSE text[1] * HoursPerDay + text[2]

\* ------------------------------------------------------------------- state
VARIABLES
  config,                   \* self.config
  results,                  \* self.results
  daily_total,              \* self.daily_total
  daily_gas_production,     \* self.daily_gas_production
  df,                       \* the frame given to the latest analyze() call
  pc,                       \* how that call ended: "done" or "raised"
  calls,                    \* analyze() calls made on this instance
  last_liquid_loading_date, \* local of _determine_treatment_stage
  production,               \* local of _determine_treatment_stage
  returned                  \* what each analyze() call that returned handed
                            \* to its caller as the results: a reference

vars == <<config, results, daily_total, daily_gas_production, df, pc, calls,
          last_liquid_loading_date, production, returned>>

\* Python's None: a local that holds a value v is <<v>>, a field that holds a
\* Series has no entries before the first analyze() assigns it
None == <<>>

Methods == <<"method1", "method2", "method3", "method4">>

\* LiquidLoadingDetector._init_results: no 'stage' key yet
InitResults ==
  [m \in {"method1", "method2", "method3", "method4"} |->
     [result |-> FALSE, periods |-> <<>>]]

\* ---------------------------------------------------------------- detectors
\* _calculate_daily_production: daily_total and its day-over-day difference
CalculateDailyProduction(frame) ==
  LET total == ResampleLastTotal(RowsWithStatus(frame, Open))
  IN  [daily_total |-> total, daily_gas_production |-> Diff(total)]

\* daily mean casing pressure of the Open rows
DailyPressureOf(frame) == ResampleMeanCasing(RowsWithStatus(frame, Open))

\* daily_pressure and daily_prod restricted to the dates they share;
\* dgp is self.daily_gas_production
Joined(frame, dgp) ==
  LET pressure == DailyPressureOf(frame)
      common_dates == IndexIntersection(pressure, dgp)
  IN  [daily_pressure |-> Loc(pressure, common_dates),
       daily_prod |-> Loc(dgp, common_dates)]

\* the window starts a range(count - window) loop visits
WindowStarts(count, window) == Range(count - window)

\* mutant of CheckReturn: the flag wants more than one period
CheckReturnMoreThanOne(found_periods) ==
  [result |-> Len(found_periods) > 1, periods |-> found_periods]

\* mutant of CheckReturn: the flag is set whatever the list holds
CheckReturnAlwaysFound(found_periods) ==
  [result |-> TRUE, periods |-> found_periods]

\* bool(found_periods), found_periods
CheckReturn(found_periods) ==
  [result |-> found_periods # <<>>, periods |-> found_periods]

\* (end - start) / start * 100
PercentChange(start, end) == MulF(DivF(SubF(end, start), start), Num(100))

\* (end_prod - start_prod) / start_prod * 100 if start_prod != 0 else 0
FlowChange(start_prod, end_prod) ==
  IF NeF(start_prod, Num(0)) THEN PercentChange(start_prod, end_prod)
  ELSE Num(0)

\* (window.max() - window.min()) / window.mean() * 100
Fluctuation(window) ==
  MulF(DivF(SubF(MaxF(window), MinF(window)), MeanF(window)), Num(100))

\* mutant of FlowFluctuation: the zero-mean guard is missing
FlowFluctuationUnguarded(window) == Fluctuation(window)

\* the flow fluctuation, 0 when the window's mean is 0
FlowFluctuation(window) ==
  IF NeF(MeanF(window), Num(0)) THEN Fluctuation(window) ELSE Num(0)

\* mutant of Match1: any rise of the pressure counts
Match1AnyRise(j, i) ==
  LET w == config.days_window
      pressure_change == PercentChange(j.daily_pressure[i + 1].v,
                                       j.daily_pressure[i + w].v)
      flow_change == FlowChange(j.daily_prod[i + 1].v, j.daily_prod[i + w].v)
  IN  /\ GtF(pressure_change, Num(0))
      /\ LtF(flow_change, Num(-config.change_threshold))

\* method 1's test of the window starting at position i (0-based)
Match1(j, i) ==
  LET w == config.days_window
      pressure_change == PercentChange(j.daily_pressure[i + 1].v,
                                       j.daily_pressure[i + w].v)
      flow_change == FlowChange(j.daily_prod[i + 1].v, j.daily_prod[i + w].v)
  IN  /\ GtF(pressure_change, Num(config.change_threshold))
      /\ LtF(flow_change, Num(-config.change_threshold))

\* method 2's test of the window starting at position i
Match2(j, i) ==
  LET w == config.days_window
      pressure_change == AbsF(PercentChange(j.daily_pressure[i + 1].v,
                                            j.daily_pressure[i + w].v))
      flow_change == FlowChange(j.daily_prod[i + 1].v, j.daily_prod[i + w].v)
  IN  /\ LtF(pressure_change, Num(config.stable_pressure_threshold))
      /\ LtF(flow_change, Num(-config.change_threshold))

\* the flow values of the zigzag window starting at position i
FlowWindow(j, i) ==
  Values(SubSeq(j.daily_prod, i + 1, i + config.zigzag_window))

\* method 3's test of the window starting at position i
Match3(j, i) ==
  LET pressure_window ==
        Values(SubSeq(j.daily_pressure, i + 1, i + config.zigzag_window))
  IN  /\ GtF(Fluctuation(pressure_window), Num(config.zigzag_threshold))
      /\ GtF(FlowFluctuation(FlowWindow(j, i)), Num(config.zigzag_threshold))

\* the period of the daily window of length w starting at position i
DailyPeriod(j, i, w) ==
  [start_date |-> StrftimeDate(j.daily_pressure[i + 1].date),
   end_date |-> StrftimeDate(j.daily_pressure[i + w].date)]

\* len(daily_prod) and len(daily_pressure), the counts the loops start from
ProdCount(j) == Len(j.daily_prod)
PressureCount(j) == Len(j.daily_pressure)

\* the periods appended for the window starts in hits, in loop order
FoundPeriods(j, hits, w) == [n \in DOMAIN hits |-> DailyPeriod(j, hits[n], w)]

\* check_pressure_up_flow_down, on the joined series j it builds first
check_pressure_up_flow_down(j) ==
  LET w == config.days_window
      hits == SelectSeq(WindowStarts(ProdCount(j), w), LAMBDA i: Match1(j, i))
  IN  CheckReturn(FoundPeriods(j, hits, w))

\* check_stable_pressure_flow_down, on the joined series j it builds first
check_stable_pressure_flow_down(j) ==
  LET w == config.days_window
      hits == SelectSeq(WindowStarts(ProdCount(j), w), LAMBDA i: Match2(j, i))
  IN  CheckReturn(FoundPeriods(j, hits, w))

\* check_sawtooth_pattern, on the joined series j it builds first
check_sawtooth_pattern(j) ==
  LET w == config.zigzag_window
      hits == SelectSeq(WindowStarts(PressureCount(j), w), LAMBDA i: Match3(j, i))
  IN  CheckReturn(FoundPeriods(j, hits, w))

\* the Closed window starting at position i
ClosedWindow(closed_periods, i) ==
  SubSeq(closed_periods, i + 1, i + config.closed_hours)

\* hours between the first and the last row of a window
TimeDiff(window) == window[Len(window)].time - window[1].time

\* mutant of IsContinuous: a window longer than closed_hours - 1 hours passes
IsContinuousAtLeast(window) == TimeDiff(window) >= config.closed_hours - 1

\* the continuity test of method 4
IsContinuous(window) == TimeDiff(window) = config.closed_hours - 1

\* (abs(oil_pressure - casing_pressure) > pressure_diff_threshold).any()
AnyPressureDiff(window) ==
  \E n \in DOMAIN window :
     GtF(AbsF(SubF(Num(window[n].oil_pressure), Num(window[n].casing_pressure))),
         Num(config.pressure_diff_threshold))

\* method 4's test of the window of Closed rows starting at position i
Match4(closed_periods, i) ==
  /\ IsContinuous(ClosedWindow(closed_periods, i))
  /\ AnyPressureDiff(ClosedWindow(closed_periods, i))

\* the period of the Closed window starting at position i
ClosedPeriod(closed_periods, i) ==
  [start_date |-> StrftimeMinute(closed_periods[i + 1].time),
   end_date |-> StrftimeMinute(closed_periods[i + config.closed_hours].time)]

\* check_pressure_difference
check_pressure_difference(frame) ==
  LET closed_periods == RowsWithStatus(frame, Closed)
      hits == IF Len(closed_periods) >= config.closed_hours
                THEN SelectSeq(WindowStarts(Len(closed_periods), config.closed_hours),
                               LAMBDA i: Match4(closed_periods, i))
                ELSE <<>>
  IN  CheckReturn([n \in DOMAIN hits |-> ClosedPeriod(closed_periods, hits[n])])

\* _run_all_checks: each method's (result, periods) stored under its name;
\* methods 1 to 3 each build the same joined series from frame and dgp
RunAllChecks(res, frame, dgp) ==
  LET j == Joined(frame, dgp)
  IN  [res EXCEPT !["method1"] = check_pressure_up_flow_down(j),
                  !["method2"] = check_stable_pressure_flow_down(j),
                  !["method3"] = check_sawtooth_pattern(j),
                  !["method4"] = check_pressure_difference(frame)]

\* ---------------------------------------------------------- stage classifier
\* mutant of HasLiquidLoading: method4 is left out of the list
HasLiquidLoadingFirstThree(res) == \E n \in 1..3 : res[Methods[n]].result

\* any(self.results[method]['result'] for method in [...])
HasLiquidLoading(res) == \E n \in DOMAIN Methods : res[Methods[n]].result

\* mutant of MethodLastDates: the first period of each method is read
MethodFirstDates(res) ==
  {ToDatetime(res[Methods[n]].periods[1].end_date) :
     n \in {i \in DOMAIN Methods :
              res[Methods[i]].result /\ res[Methods[i]].periods # <<>>}}

\* the end dates the classifier reads: the last period of each method that fired
MethodLastDates(res) ==
  {ToDatetime(res[Methods[n]].periods[Len(res[Methods[n]].periods)].end_date) :
     n \in {i \in DOMAIN Methods :
              res[Methods[i]].result /\ res[Methods[i]].periods # <<>>}}

\* the loop keeping the greatest method_last_date; None when no method has one
LastLiquidLoadingDate(res) ==
  LET dates == MethodLastDates(res)
  IN  IF dates = {} THEN None
      ELSE <<CHOOSE x \in dates : \A y \in dates : x >= y>>

\* the Series whose .iloc[-1] becomes the production
ProductionCandidates(dgp, date) ==
  IF date # None THEN SelectSeq(dgp, LAMBDA e: e.date <= date[1]) ELSE dgp

\* mutant of StageOf: the lower bounds are exclusive
StageOfExclusive(p) ==
  LET production_10k == DivF(p, Num(10000))
  IN  IF GtF(production_10k, Num(1)) THEN "Column-Carrying Stage"
      ELSE IF GtF(production_10k, Rat(8, 10)) THEN "Transition Stage"
      ELSE IF GtF(production_10k, Rat(5, 10)) THEN "Foam-Assisted Lift Stage"
      ELSE IF GtF(production_10k, Rat(3, 10)) THEN "Plunger Lift Stage"
      ELSE "Intermittent Production Stage"

\* the if / elif chain over production_10k = production / 1e4
StageOf(p) ==
  LET production_10k == DivF(p, Num(10000))
  IN  IF GeF(production_10k, Num(1)) THEN "Column-Carrying Stage"
      ELSE IF GeF(production_10k, Rat(8, 10)) /\ LtF(production_10k, Num(1))
        THEN "Transition Stage"
      ELSE IF GeF(production_10k, Rat(5, 10)) /\ LtF(production_10k, Rat(8, 10))
        THEN "Foam-Assisted Lift Stage"
      ELSE IF GeF(production_10k, Rat(3, 10)) /\ LtF(production_10k, Rat(5, 10))
        THEN "Plunger Lift Stage"
      ELSE "Intermittent Production Stage"

\* self.results['stage'] = stage
WithStage(res, stage) ==
  [key \in DOMAIN res \cup {"stage"} |-> IF key = "stage" THEN stage ELSE res[key]]

\* _determine_treatment_stage on the results of the checks: the results it
\* leaves, its two locals, and whether .iloc[-1] of an empty Series raised
\* IndexError
DetermineTreatmentStage(res, dgp) ==
  IF ~HasLiquidLoading(res)
    THEN [results |-> WithStage(res, "Normal Production"),
          date |-> None, production |-> None, raised |-> FALSE]
    ELSE LET date == LastLiquidLoadingDate(res)
             candidates == ProductionCandidates(dgp, date)
         IN  IF candidates = <<>>
               THEN [results |-> res, date |-> date, production |-> None,
                     raised |-> TRUE]
               ELSE [results |-> WithStage(res, StageOf(candidates[Len(candidates)].v)),
                     date |-> date,
                     production |-> <<candidates[Len(candidates)].v>>,
                     raised |-> FALSE]

\* ------------------------------------------------------------------ inputs
Row(t, status, oil, casing, total) ==
  [time |-> t, switch_status |-> status, oil_pressure |-> oil,
   casing_pressure |-> casing, total_gas_flow |-> total]

CasingValues == {10, 13}
FlowIncrements == {-5000, 0, 3000, 5000, 8000, 10000}

RECURSIVE SumTo(_, _)
SumTo(f, n) == IF n = 0 THEN 0 ELSE f[n] + SumTo(f, n - 1)

\* an all-Open series with one reading a day, at midnight of days 0, 1, ...:
\* the counter starts at 20000 and moves by the chosen increment each day (a
\* negative one is a counter that was reset or replaced)
DailySeries(casing, inc) ==
  [i \in DOMAIN casing |->
     Row((i - 1) * HoursPerDay, Open, casing[i], casing[i],
         20000 + SumTo(inc, i - 1))]

\* a mixed series: each row is Open or Closed, one hour or one day after the
\* row before it, the first at 22:00 of day 0; the counter grows by 4000 on
\* every Open row and stands still on a Closed one
RowKinds == {"open10", "open13", "shut13", "shut14"}
TimeSteps == {1, HoursPerDay}
StartHour == HoursPerDay - 2

IsOpenKind(kind) == kind \in {"open10", "open13"}

RECURSIVE TimeAt(_, _, _)
TimeAt(start, step, i) ==
  IF i = 1 THEN start ELSE TimeAt(start, step, i - 1) + step[i - 1]

OpensUpTo(kind, i) == Cardinality({j \in 1..i : IsOpenKind(kind[j])})

MixedRow(kind, t, total) ==
  IF kind = "open10" THEN Row(t, Open, 10, 10, total)
  ELSE IF kind = "open13" THEN Row(t, Open, 13, 13, total)
  ELSE IF kind = "shut13" THEN Row(t, Closed, 13, 10, total)
  ELSE Row(t, Closed, 14, 10, total)

MixedSeries(kind, step) ==
  [i \in DOMAIN kind |->
     MixedRow(kind[i], TimeAt(StartHour, step, i), 4000 * OpensUpTo(kind, i))]

\* the series offered to a detector that is used again, beside the short
\* ones: one for each way an analysis can end
DailyFixtures ==
  {DailySeries(<<10, 10, 13, 13>>, <<10000, 5000, 5000>>),
   DailySeries(<<10, 10, 10, 10>>, <<10000, 5000, 3000>>),
   DailySeries(<<10, 10, 10, 10>>, <<10000, 10000, 10000>>),
   DailySeries(<<10, 10, 13, 13, 13>>, <<10000, 5000, 3000, 3000>>)}

Fixtures ==
  DailyFixtures \cup
  {MixedSeries(<<"shut14", "shut14", "shut14">>, <<1, 1>>),
   MixedSeries(<<"open10", "open10", "shut14", "shut14">>, <<HoursPerDay, 1, 1>>)}

\* the counter reading at hour t of a well whose Open rows are base: the
\* counter stands still while the well is shut
CounterAt(base, t) ==
  LET before == SelectSeq(base, LAMBDA row: row.time <= t)
  IN  IF before = <<>> THEN base[1].total_gas_flow
      ELSE before[Len(before)].total_gas_flow

\* k hourly Closed rows from 01:00 of day start_day on, with a differential
\* of 4 between oil and casing pressure
ClosedRun(base, start_day, k) ==
  [i \in 1..k |->
     Row(start_day * HoursPerDay + i, Closed, 14, 10,
         CounterAt(base, start_day * HoursPerDay + i))]

\* a daily series and a run of Closed rows in one frame, in time order
WithClosedRun(base, start_day, k) ==
  SortSeq(base \o ClosedRun(base, start_day, k), LAMBDA a, b: a.time < b.time)

\* the parameter sets a detector is built with: the defaults of Config with
\* short windows
Configs ==
  {[days_window |-> 2, zigzag_window |-> 3, closed_hours |-> 2,
    change_threshold |-> change_threshold,
    stable_pressure_threshold |-> stable_pressure_threshold,
    zigzag_threshold |-> zigzag_threshold,
    pressure_diff_threshold |-> pressure_diff_threshold],
   [days_window |-> 3, zigzag_window |-> 2, closed_hours |-> 1,
    change_threshold |-> change_threshold,
    stable_pressure_threshold |-> stable_pressure_threshold,
    zigzag_threshold |-> zigzag_threshold,
    pressure_diff_threshold |-> pressure_diff_threshold]}

\* parameter sets with other thresholds: stable_pressure_threshold and
\* change_threshold as (5, 20), (20, 20), (0, 20), (10, 10), and (40, 20)
\* where the stable band reaches above the change threshold
ThresholdPairs == {<<5, 20>>, <<20, 20>>, <<0, 20>>, <<10, 10>>, <<40, 20>>}

ThresholdConfigs ==
  {[days_window |-> 2, zigzag_window |-> 3, closed_hours |-> 2,
    change_threshold |-> pair[2],
    stable_pressure_threshold |-> pair[1],
    zigzag_threshold |-> zigzag_threshold,
    pressure_diff_threshold |-> pressure_diff_threshold] : pair \in ThresholdPairs}

\* daily mean casing pressures giving changes of 0, 8.3, 9.1, 10, 18.2, 20
\* and 30 percent, their negatives, and a division by zero
PressureValues == {0, 10, 11, 12, 13}

\* an all-Open series of declining production: 10000, 5000, 3000, 3000, ...
DecliningIncrements(n) ==
  [i \in 1..(n - 1) |-> IF i = 1 THEN 10000 ELSE IF i = 2 THEN 5000 ELSE 3000]

\* ----------------------------------------------------------------- actions
\* the dict object created once by _init_results and bound to self.results;
\* nothing rebinds the attribute afterwards
ResultsRef == "self.results"

\* the dict a reference leads to, when self.results holds res: the checks and
\* the stage step assign into that one object (and into its four inner dicts),
\* they build no new one
ObjectAt(ref, res) == [r \in {ResultsRef} |-> res][ref]

\* `return self.results, ...`: the caller is handed the object itself, no copy
ReturnResults(outcomes) == Append(outcomes, ResultsRef)

\* LiquidLoadingDetector(config)
Init ==
  /\ config \in Configs
  /\ results = InitResults
  /\ daily_total = None
  /\ daily_gas_production = None
  /\ df = None
  /\ pc = "idle"
  /\ calls = 0
  /\ last_liquid_loading_date = None
  /\ production = None
  /\ returned = <<>>

\* analyze(frame): daily production, the four checks, the stage; it returns
\* self.results (pc = "done") or lets the IndexError of the stage step through
\* (pc = "raised"), the checks' results already stored
Analyze(frame) ==
  \E daily \in {CalculateDailyProduction(frame)} :
  \E checked \in {RunAllChecks(results, frame, daily.daily_gas_production)} :
  \E staged \in {DetermineTreatmentStage(checked, daily.daily_gas_production)} :
     /\ df' = frame
     /\ daily_total' = daily.daily_total
     /\ daily_gas_production' = daily.daily_gas_production
     /\ results' = staged.results
     /\ last_liquid_loading_date' = staged.date
     /\ production' = staged.production
     /\ pc' = IF staged.raised THEN "raised" ELSE "done"
     /\ calls' = calls + 1
     /\ returned' = IF staged.raised THEN returned ELSE ReturnResults(returned)
     /\ UNCHANGED config

\* analyze() of an all-Open daily series of at most maxdays days
AnalyzeDaily(maxdays) ==
  \E n \in 0..maxdays :
  \E casing \in [1..n -> CasingValues] :
  \E inc \in [1..(n - 1) -> FlowIncrements] :
     Analyze(DailySeries(casing, inc))

\* analyze() of a mixed Open/Closed series of at most maxrows rows
AnalyzeMixed(maxrows) ==
  \E n \in 0..maxrows :
  \E kind \in [1..n -> RowKinds] :
  \E step \in [1..(n - 1) -> TimeSteps] :
     Analyze(MixedSeries(kind, step))

\* analyze() of one of the fixtures
AnalyzeFixture == \E frame \in Fixtures : Analyze(frame)

\* analyze() of a daily fixture with a run of Closed rows in it or after it
AnalyzeWithClosedRun ==
  \E base \in DailyFixtures :
  \E start_day \in 0..MaxDays :
  \E k \in 1..MaxClosedRun :
     Analyze(WithClosedRun(base, start_day, k))

\* one analysis per detector instance, the way api.py and test.py use it
Next ==
  \/ calls = 0 /\ AnalyzeDaily(MaxDays)
  \/ calls = 0 /\ AnalyzeMixed(MaxRows)
  \/ calls = 0 /\ AnalyzeWithClosedRun

Spec == Init /\ [][Next]_vars

\* one detector instance analysing one series after another: the series of
\* at most two rows, and the fixtures
NextReuse ==
  \/ calls < MaxCalls /\ AnalyzeDaily(2)
  \/ calls < MaxCalls /\ AnalyzeMixed(2)
  \/ calls < MaxCalls /\ AnalyzeFixture

SpecReuse == Init /\ [][NextReuse]_vars

\* LiquidLoadingDetector(config) with one of the threshold parameter sets
InitThresholds ==
  /\ config \in ThresholdConfigs
  /\ results = InitResults
  /\ daily_total = None
  /\ daily_gas_production = None
  /\ df = None
  /\ pc = "idle"
  /\ calls = 0
  /\ last_liquid_loading_date = None
  /\ production = None
  /\ returned = <<>>

\* analyze() of an all-Open series of declining production of at most maxdays
\* days
AnalyzePressures(maxdays) ==
  \E n \in 0..maxdays :
  \E casing \in [1..n -> PressureValues] :
     Analyze(DailySeries(casing, DecliningIncrements(n)))

\* one analysis per detector instance, over the threshold parameter sets
NextThresholds ==
  \/ calls = 0 /\ AnalyzePressures(MaxDays)
  \/ calls = 0 /\ AnalyzeFixture

SpecThresholds == InitThresholds /\ [][NextThresholds]_vars

\* ------------------------------------------------------------------ claims
\* the latest analyze() call is over: it returned or raised
Analyzed == pc \in {"done", "raised"}

\* the joined daily series of the latest call
J == Joined(df, daily_gas_production)

\* the Closed rows of the latest call
ClosedRows == RowsWithStatus(df, Closed)

\* every window start of a series of count entries: 0 .. count - window
AllStarts(count, window) == Range(count - window + 1)

\* the periods methods 1, 2 and 3 report when every window start is evaluated
AllPeriods1(j) ==
  LET w == config.days_window
      hits == SelectSeq(AllStarts(Len(j.daily_prod), w), LAMBDA i: Match1(j, i))
  IN  [n \in DOMAIN hits |-> DailyPeriod(j, hits[n], w)]

AllPeriods2(j) ==
  LET w == config.days_window
      hits == SelectSeq(AllStarts(Len(j.daily_prod), w), LAMBDA i: Match2(j, i))
  IN  [n \in DOMAIN hits |-> DailyPeriod(j, hits[n], w)]

AllPeriods3(j) ==
  LET w == config.zigzag_window
      hits == SelectSeq(AllStarts(Len(j.daily_pressure), w), LAMBDA i: Match3(j, i))
  IN  [n \in DOMAIN hits |-> DailyPeriod(j, hits[n], w)]

\* the periods method 4 reports when every window start is evaluated
AllClosedPeriods(closed) ==
  LET hits == SelectSeq(AllStarts(Len(closed), config.closed_hours),
                        LAMBDA i: Match4(closed, i))
  IN  [n \in DOMAIN hits |-> ClosedPeriod(closed, hits[n])]

\* C1: after every analyze() call, the first or a repeated one on the same
\* detector, each method's 'result' flag is true exactly when its 'periods'
\* list is non-empty.
C1_ResultIffPeriods ==
  /\ results.method1.result <=> results.method1.periods # <<>>
  /\ results.method2.result <=> results.method2.periods # <<>>
  /\ results.method3.result <=> results.method3.periods # <<>>
  /\ results.method4.result <=> results.method4.periods # <<>>

\* a second call on the same detector left a method with exactly one period
\* and another with none
C1_Witness ==
  /\ calls = 2
  /\ pc = "done"
  /\ Len(results.method1.periods) = 1
  /\ results.method1.result
  /\ ~results.method4.result

\* C2 (as claimed): methods 1, 2 and 3 evaluate every window start
\* 0 .. count - W, the last one included, and report exactly the qualifying
\* windows in ascending order.
C2_EveryWindowReported ==
  Analyzed =>
    /\ results.method1.periods = AllPeriods1(J)
    /\ results.method2.periods = AllPeriods2(J)
    /\ results.method3.periods = AllPeriods3(J)

\* C3 (as claimed): method 4 evaluates every window start 0 .. count -
\* closed_hours; exactly closed_hours contiguous Closed rows with a
\* differential above the threshold give detected = true with one period.
C3_EveryClosedWindowReported ==
  Analyzed =>
    /\ Len(ClosedRows) >= config.closed_hours =>
         results.method4.periods = AllClosedPeriods(ClosedRows)
    /\ ( /\ Len(ClosedRows) = config.closed_hours
         /\ TimeDiff(ClosedRows) = config.closed_hours - 1
         /\ AnyPressureDiff(ClosedRows) ) =>
         results.method4.result /\ Len(results.method4.periods) = 1

\* C4: every period of method 4 spans closed_hours - 1 hours, and no window
\* of closed_hours Closed rows with another span is among the periods,
\* whatever its pressure differentials.
C4_NoGappedWindowReported ==
  Analyzed =>
    /\ \A n \in DOMAIN results.method4.periods :
         ToDatetime(results.method4.periods[n].end_date)
           - ToDatetime(results.method4.periods[n].start_date)
         = config.closed_hours - 1
    /\ \A n \in DOMAIN AllStarts(Len(ClosedRows), config.closed_hours) :
         LET i == n - 1
         IN  TimeDiff(ClosedWindow(ClosedRows, i)) # config.closed_hours - 1 =>
               \A m \in DOMAIN results.method4.periods :
                  results.method4.periods[m] # ClosedPeriod(ClosedRows, i)

\* the loop visited a gapped window with a differential above the threshold
\* and skipped it, and reported a contiguous one after it
C4_Witness ==
  /\ pc = "raised"
  /\ Len(ClosedRows) > config.closed_hours
  /\ TimeDiff(ClosedWindow(ClosedRows, 0)) > config.closed_hours - 1
  /\ AnyPressureDiff(ClosedWindow(ClosedRows, 0))
  /\ Len(results.method4.periods) = 1
  /\ results.method4.periods[1] = ClosedPeriod(ClosedRows, 1)

\* at least one of the four methods fired in the latest call
AnyFired ==
  \/ results.method1.result
  \/ results.method2.result
  \/ results.method3.result
  \/ results.method4.result

\* C5: when a method fired and the selected production p is a number, the
\* stage is the one of p's range: p >= 10000 Column-Carrying, 8000 <= p < 10000
\* Transition, 5000 <= p < 8000 Foam-Assisted Lift, 3000 <= p < 5000 Plunger
\* Lift, p < 3000 Intermittent Production (p in units/day, i.e. 10^4 p' with
\* the bounds 1.0, 0.8, 0.5, 0.3 on p').
C5_StageByProduction ==
  (pc = "done" /\ AnyFired /\ production # None /\ IsNum(production[1])) =>
    LET n == production[1].n
        d == production[1].d
    IN  /\ n >= 10000 * d => results.stage = "Column-Carrying Stage"
        /\ (8000 * d <= n /\ n < 10000 * d) => results.stage = "Transition Stage"
        /\ (5000 * d <= n /\ n < 8000 * d) =>
             results.stage = "Foam-Assisted Lift Stage"
        /\ (3000 * d <= n /\ n < 5000 * d) => results.stage = "Plunger Lift Stage"
        /\ n < 3000 * d => results.stage = "Intermittent Production Stage"

\* a method fired and the selected production is exactly 0.8 x 10^4
C5_Witness ==
  /\ pc = "done"
  /\ AnyFired
  /\ production = <<Num(8000)>>
  /\ results.stage = "Transition Stage"

\* C6: after analyze() returned, the stage is 'Normal Production' exactly when
\* no method fired, and then no production was looked up; analyze() raises
\* only when a method fired.
C6_NormalIffNoneFired ==
  /\ pc = "done" =>
       /\ (results.stage = "Normal Production") <=> ~AnyFired
       /\ ~AnyFired => production = None
  /\ pc = "raised" => AnyFired

\* no method fired on a series without Open rows, whose DailyProduction is
\* empty
C6_Witness ==
  /\ pc = "done"
  /\ df # <<>>
  /\ daily_gas_production = <<>>
  /\ ~AnyFired
  /\ results.stage = "Normal Production"

\* C7 (as claimed): when a method fired and DailyProduction, not empty, has no
\* entry on or before the latest loading end date, the classifier takes the
\* series' most recent value and returns its stage.
C7_FallsBackToMostRecent ==
  ( /\ Analyzed
    /\ AnyFired
    /\ daily_gas_production # <<>>
    /\ last_liquid_loading_date # None
    /\ \A n \in DOMAIN daily_gas_production :
          daily_gas_production[n].date > last_liquid_loading_date[1] ) =>
    /\ pc = "done"
    /\ production = <<daily_gas_production[Len(daily_gas_production)].v>>
    /\ results.stage = StageOf(production[1])

NoFinding == [result |-> FALSE, periods |-> <<>>]

\* C8: a method with fewer data points than its window reports no finding,
\* and analyze() returns when all four are short; methods 1 to 3 report what
\* they report on the Open rows alone and method 4 what it reports on the
\* Closed rows alone, so a shortage on one side leaves the other side's
\* results as they are.
C8_ShortageIsNoFinding ==
  Analyzed =>
    /\ Len(J.daily_prod) < config.days_window =>
         results.method1 = NoFinding /\ results.method2 = NoFinding
    /\ Len(J.daily_pressure) < config.zigzag_window => results.method3 = NoFinding
    /\ Len(ClosedRows) < config.closed_hours => results.method4 = NoFinding
    /\ ( /\ Len(J.daily_prod) < config.days_window
         /\ Len(J.daily_pressure) < config.zigzag_window
         /\ Len(ClosedRows) < config.closed_hours ) => pc = "done"
    /\ LET open == Joined(RowsWithStatus(df, Open), daily_gas_production)
       IN  /\ results.method1 = check_pressure_up_flow_down(open)
           /\ results.method2 = check_stable_pressure_flow_down(open)
           /\ results.method3 = check_sawtooth_pattern(open)
    /\ results.method4 = check_pressure_difference(ClosedRows)

\* the joined daily series is shorter than both daily windows, with an Open
\* row present, while method 4 fired
C8_Witness ==
  /\ Analyzed
  /\ Len(J.daily_prod) >= 1
  /\ Len(J.daily_prod) < config.days_window
  /\ Len(J.daily_pressure) < config.zigzag_window
  /\ results.method1 = NoFinding
  /\ results.method3 = NoFinding
  /\ results.method4.result

\* the calendar days with at least one Open row
OpenDays ==
  {RowsWithStatus(df, Open)[n].time \div HoursPerDay :
     n \in DOMAIN RowsWithStatus(df, Open)}

\* the last Open total_gas_flow of a day
LastOpenTotal(day) ==
  LET g == RowsOfDay(RowsWithStatus(df, Open), day)
  IN  g[Len(g)].total_gas_flow

\* C9 (as claimed): with k >= 1 days holding an Open row, DailyProduction has
\* exactly k - 1 defined entries, each the day's last Open total_gas_flow
\* minus that of the previous Open day, fully-Closed days in between or not.
C9_OneFewerThanOpenDays ==
  (Analyzed /\ OpenDays # {}) =>
    LET defined == {n \in DOMAIN daily_gas_production :
                      ~IsNaN(daily_gas_production[n].v)}
    IN  /\ Cardinality(defined) = Cardinality(OpenDays) - 1
        /\ \A n \in defined :
             LET day == daily_gas_production[n].date \div HoursPerDay
                 before == {x \in OpenDays : x < day}
             IN  /\ before # {}
                 /\ day \in OpenDays
                 /\ daily_gas_production[n].v =
                      Num(LastOpenTotal(day)
                          - LastOpenTotal(CHOOSE x \in before :
                                            \A y \in before : y <= x))

\* the period a daily method would report for the window of length w at i
IsReported(periods, j, i, w) ==
  \E n \in DOMAIN periods : periods[n] = DailyPeriod(j, i, w)

\* C10: with non-negative thresholds, a window of methods 1 and 2 whose
\* start_prod is 0 has flow_change 0 and is not reported, and a window of
\* method 3 whose flow mean is 0 has flow_fluctuation 0 and is not reported.
C10_ZeroGuards ==
  ( /\ Analyzed
    /\ config.change_threshold >= 0
    /\ config.zigzag_threshold >= 0 ) =>
    /\ \A n \in DOMAIN AllStarts(Len(J.daily_prod), config.days_window) :
         LET i == n - 1
             w == config.days_window
         IN  EqF(J.daily_prod[i + 1].v, Num(0)) =>
               /\ FlowChange(J.daily_prod[i + 1].v, J.daily_prod[i + w].v) = Num(0)
               /\ ~IsReported(results.method1.periods, J, i, w)
               /\ ~IsReported(results.method2.periods, J, i, w)
    /\ \A n \in DOMAIN AllStarts(Len(J.daily_pressure), config.zigzag_window) :
         LET i == n - 1
         IN  EqF(MeanF(FlowWindow(J, i)), Num(0)) =>
               /\ FlowFluctuation(FlowWindow(J, i)) = Num(0)
               /\ ~IsReported(results.method3.periods, J, i, config.zigzag_window)

\* the loop of method 3 visited a window whose flow rises and falls around a
\* zero mean while its pressure fluctuates beyond the threshold, and did not
\* report it
C10_Witness ==
  /\ Analyzed
  /\ \E n \in DOMAIN WindowStarts(Len(J.daily_pressure), config.zigzag_window) :
        /\ EqF(MeanF(FlowWindow(J, n - 1)), Num(0))
        /\ GtF(MaxF(FlowWindow(J, n - 1)), MinF(FlowWindow(J, n - 1)))
        /\ GtF(Fluctuation(Values(SubSeq(J.daily_pressure, n,
                                         n - 1 + config.zigzag_window))),
               Num(config.zigzag_threshold))
        /\ ~IsReported(results.method3.periods, J, n - 1, config.zigzag_window)

\* the loop of methods 1 and 2 visited a window whose start_prod is 0 and
\* whose pressure rose beyond the threshold
C10_WitnessStartProdZero ==
  /\ Analyzed
  /\ \E n \in DOMAIN WindowStarts(Len(J.daily_prod), config.days_window) :
        /\ EqF(J.daily_prod[n].v, Num(0))
        /\ GtF(PercentChange(J.daily_pressure[n].v,
                             J.daily_pressure[n - 1 + config.days_window].v),
               Num(config.change_threshold))

\* what a caller reads in an outcome it was handed, when self.results holds res
OutcomeNow(ref, res) == ObjectAt(ref, res)

\* C11 (as claimed): the outcome an analyze() call returned is not changed
\* afterwards: a later analyze() call on the same detector leaves the flags,
\* periods and stage every earlier caller holds as they were.
C11_ReturnedOutcomeUnchanged ==
  [][\A n \in DOMAIN returned :
        OutcomeNow(returned[n], results') = OutcomeNow(returned[n], results)]_vars

\* the end dates of all the periods of the methods that fired
AllEndDates(res) ==
  UNION {{ToDatetime(res[Methods[n]].periods[k].end_date) :
            k \in DOMAIN res[Methods[n]].periods} :
         n \in {i \in DOMAIN Methods : res[Methods[i]].result}}

\* C12: when a method fired, the date the stage step uses is the greatest end
\* date among all the periods of all the methods that fired (each method's
\* last period carries that method's greatest end date).
C12_DateIsMaxEndDate ==
  (Analyzed /\ AnyFired) =>
    /\ last_liquid_loading_date # None
    /\ last_liquid_loading_date[1] \in AllEndDates(results)
    /\ \A d \in AllEndDates(results) : d <= last_liquid_loading_date[1]

\* two methods fired with different last end dates, one of them with several
\* periods
C12_Witness ==
  /\ Analyzed
  /\ Cardinality(MethodLastDates(results)) > 1
  /\ \E n \in DOMAIN Methods :
        /\ Len(results[Methods[n]].periods) > 1
        /\ results[Methods[n]].periods[1].end_date
             # results[Methods[n]].periods[Len(results[Methods[n]].periods)].end_date
  /\ last_liquid_loading_date # None

\* the parameter set keeps 0 <= stable_pressure_threshold <= change_threshold
OrderedThresholds ==
  /\ 0 <= config.stable_pressure_threshold
  /\ config.stable_pressure_threshold <= config.change_threshold

\* C13: with 0 <= stable_pressure_threshold <= change_threshold no window is
\* reported by both method 1 and method 2, and no window of the series, the
\* last one included, passes both tests; the two methods may still fire in one
\* analysis, on different windows.
C13_NoWindowInBoth ==
  (Analyzed /\ OrderedThresholds) =>
    /\ \A a \in DOMAIN results.method1.periods :
       \A b \in DOMAIN results.method2.periods :
          ~ /\ results.method1.periods[a].start_date
                 = results.method2.periods[b].start_date
            /\ results.method1.periods[a].end_date
                 = results.method2.periods[b].end_date
    /\ \A n \in DOMAIN AllStarts(Len(J.daily_prod), config.days_window) :
          ~(Match1(J, n - 1) /\ Match2(J, n - 1))

\* methods 1 and 2 both fired in one analysis, on different windows
C13_Witness ==
  /\ pc = "done"
  /\ OrderedThresholds
  /\ results.method1.result
  /\ results.method2.result
  /\ results.method1.periods[1] # results.method2.periods[1]

\* with the stable band above the change threshold one window is reported by
\* both methods
C13_WitnessUnordered ==
  /\ pc = "done"
  /\ ~OrderedThresholds
  /\ results.method1.result
  /\ results.method2.result
  /\ results.method1.periods[1] = results.method2.periods[1]

\* C14 (as claimed): when a method fired and analyze() returned, the
\* production the stage step selected is a number, never the NaN of the first
\* day or of a day next to a fully Closed one, and 'Intermittent Production
\* Stage' goes only with a number below 0.3 x 10^4.
C14_SelectedProductionIsNumber ==
  (pc = "done" /\ AnyFired) =>
    /\ production # None
    /\ IsNum(production[1])
    /\ results.stage = "Intermittent Production Stage" =>
         LtF(production[1], Num(3000))

====
